---- MODULE Spec2Model ----
(***************************************************************************)
(* Flight-booking backend (FastAPI + SQLAlchemy + Redis seat cache).       *)
(* The relational store, the Redis seat cache, the JWT authentication      *)
(* module and the request handlers of the auth and bookings routers, each  *)
(* handler split at its store / cache round trips so that requests of      *)
(* several workers can interleave.                                          *)
(***************************************************************************)
EXTENDS Integers, Sequences, FiniteSets, TLC

VARIABLES
    users,            \* table users: rows [id, username, email, hashed_password, disabled]
    user_id_seq,      \* last value handed out by the users.id sequence
    scust,            \* table scust: rows [mandt, id, name]
    sflight,          \* table sflight: flight key -> [seatsmax]
    spfli,            \* table spfli: the set of schedule keys
    sbook,            \* table sbook: rows [mandt, sched, bookid, custom_mandt, custom_id]
    redis_available,  \* redis_cache.redis_available, set once at import
    redis_up,         \* whether the Redis service answers right now
    cache,            \* the Redis keyspace: key -> <<>> or <<[value, ttl]>>
    now,              \* the wall clock, in minutes
    proc,             \* per worker: the handler's position and locals
    resp,             \* per worker: the response of its last finished request
    run,              \* per schedule: the responses to the create-booking calls made
                      \* since one found the schedule empty, no deletion in between
    client,           \* what the API's client keeps: the credentials its registrations
                      \* were answered a token for, and the token it got last
    scarr,            \* table scarr: the set of carrier ids
    sairport,         \* table sairport: the set of airport ids
    seed,             \* the seeding utility: its position, its session's pending rows
    sessions,         \* the workers whose request holds an open database session
    written           \* per cache key: the count, ttl and age of the last successful
                      \* set_available_seats_in_cache made on its own

vars == <<users, user_id_seq, scust, sflight, spfli, sbook, redis_available,
          redis_up, cache, now, proc, resp, run, client, scarr, sairport, seed,
          sessions, written>>

----------------------------------------------------------------------------
(* Bounds of the exploration.                                              *)
MaxSeats == 2
MaxTime == 31
MaxBookId == MaxSeats + 1
MaxUserId == 5
MaxTtl == 2
MaxRuns == 2
DrawDepth == 1

(* Program constants.                                                      *)
ACCESS_TOKEN_EXPIRE_MINUTES == 30
DEFAULT_EXPIRE_MINUTES == 15
DEFAULT_TTL == 3600
FLIGHTS_PER_RUN == 19
SECRET_KEY == "your-secret-key-change-in-production"
MANDT == "100"

Workers == {"w1", "w2"}

----------------------------------------------------------------------------
(* Small helpers.                                                          *)
Max(a, b) == IF a >= b THEN a ELSE b

\* Python max(iterable, default=d)
SetMax(S, d) == IF S = {} THEN d ELSE CHOOSE y \in S : \A z \in S : y >= z

\* str(count): sign and decimal digits, most significant first
RECURSIVE Digits(_)
Digits(n) == IF n < 10 THEN <<n>> ELSE Append(Digits(n \div 10), n % 10)

IntToStr(n) == [neg |-> n < 0, digits |-> Digits(IF n < 0 THEN 0 - n ELSE n)]

RECURSIVE DigitsValue(_)
DigitsValue(ds) ==
    IF ds = <<>> THEN 0
    ELSE 10 * DigitsValue(SubSeq(ds, 1, Len(ds) - 1)) + ds[Len(ds)]

\* int(value)
\* a parse that drops the sign
StrToInt_Unsigned(s) == DigitsValue(s.digits)

StrToInt(s) == IF s.neg THEN 0 - DigitsValue(s.digits) ELSE DigitsValue(s.digits)

----------------------------------------------------------------------------
(* Flights and schedules. A departure is [sec, usec]; a flight key is      *)
(* <<carrid, connid, fldate>>.                                             *)
K1 == <<"SU", "0001", [sec |-> 1, usec |-> 0]>>
K2 == <<"LH", "0002", [sec |-> 2, usec |-> 5]>>
K3 == <<"BA", "0003", [sec |-> 3, usec |-> 0]>>

SchedKeys == {K1, K2}        \* flights that have a schedule row
FlightKeys == {K1, K2, K3}   \* K3: a flight whose schedule row is missing

\* fldate_dt.strftime("%Y-%m-%d %H:%M:%S"): the microseconds are dropped
Strftime(fldate) == fldate.sec

\* f"seats:{carrid}:{connid}:{fldate_str}"
CacheKey(carrid, connid, fldate_str) == <<"seats", carrid, connid, fldate_str>>

KeyOf(k) == CacheKey(k[1], k[2], Strftime(k[3]))

CacheKeys == {KeyOf(k) : k \in FlightKeys}

\* spfli.bookings: the rows of sbook joined on (carrid, connid, fldate)
BookingsOf(k) == {b \in sbook : b.sched = k}

BookIds(k) == {b.bookid : b \in BookingsOf(k)}

----------------------------------------------------------------------------
(* Passwords: sha256_crypt is a salted one-way function of the password.   *)
Sha256Crypt(salt, password) ==
    [scheme |-> "sha256_crypt", salt |-> salt, checksum |-> <<salt, password>>]

get_password_hash(password, salt) == Sha256Crypt(salt, password)

\* a comparison that hashes with one fixed salt, not with the salt of the stored hash
verify_password_FixedSalt(plain_password, hashed_password) ==
    Sha256Crypt("s1", plain_password) = hashed_password

verify_password(plain_password, hashed_password) ==
    Sha256Crypt(hashed_password.salt, plain_password) = hashed_password

get_user_by_username(username) ==
    LET m == {u \in users : u.username = username}
    IN  IF m = {} THEN <<>> ELSE <<CHOOSE u \in m : TRUE>>

authenticate_user(username, password) ==
    LET user == get_user_by_username(username)
    IN  IF user = <<>> THEN <<>>
        ELSE IF ~verify_password(password, user[1].hashed_password) THEN <<>>
        ELSE user

----------------------------------------------------------------------------
(* Tokens: a JWT is its claims and the key that signed it. sub is <<>>     *)
(* when the claim is absent. expires_delta 0 stands for None.              *)
\* a token whose lifetime is the default whatever the caller asks for
create_access_token_Fixed(sub, expires_delta) ==
    [sub |-> sub, exp |-> now + DEFAULT_EXPIRE_MINUTES, key |-> SECRET_KEY]

create_access_token(sub, expires_delta) ==
    LET expire == IF expires_delta # 0 THEN now + expires_delta
                  ELSE now + DEFAULT_EXPIRE_MINUTES
    IN  [sub |-> sub, exp |-> expire, key |-> SECRET_KEY]

\* jwt.decode: <<>> stands for JWTError (bad signature or expired)
\* a decoder that does not look at 'exp'
JwtDecode_NoExpiry(token, key) ==
    IF token.key # key THEN <<>> ELSE <<token>>

JwtDecode(token, key) ==
    IF token.key # key THEN <<>>
    ELSE IF token.exp < now THEN <<>>
    ELSE <<token>>

\* <<>> stands for the 401 credentials_exception
get_current_user(token) ==
    LET payload == JwtDecode(token, SECRET_KEY)
    IN  IF payload = <<>> THEN <<>>
        ELSE IF payload[1].sub = <<>> THEN <<>>
        ELSE get_user_by_username(payload[1].sub[1])

----------------------------------------------------------------------------
(* The seat cache.                                                         *)
RedisGet(key) == IF cache[key] = <<>> THEN <<>> ELSE <<cache[key][1].value>>

\* outcome of get_available_seats_from_cache: raised, or the Optional[int]
get_available_seats_from_cache(carrid, connid, fldate_str) ==
    IF ~redis_available THEN [raised |-> FALSE, value |-> <<>>]
    ELSE IF ~redis_up THEN [raised |-> TRUE, value |-> <<>>]
    ELSE LET value == RedisGet(CacheKey(carrid, connid, fldate_str))
         IN  [raised |-> FALSE,
              value |-> IF value # <<>> THEN <<StrToInt(value[1])>> ELSE <<>>]

\* outcome of set_available_seats_in_cache: raised, and the keyspace after
set_available_seats_in_cache(carrid, connid, fldate_str, count, ttl) ==
    IF ~redis_available THEN [raised |-> FALSE, cache |-> cache]
    ELSE IF ~redis_up THEN [raised |-> TRUE, cache |-> cache]
    ELSE [raised |-> FALSE,
          cache |-> [cache EXCEPT ![CacheKey(carrid, connid, fldate_str)] =
                        <<[value |-> IntToStr(count), ttl |-> ttl]>>]]

----------------------------------------------------------------------------
(* Workers and responses.                                                  *)
NoPayload == [username |-> "", email |-> "", password |-> ""]

Idle == [pc |-> "idle", user |-> 0, sched |-> K3, available |-> 0, bookid |-> 0,
         payload |-> NoPayload]

NoResp == [op |-> "none", status |-> 0, detail |-> "", booking_id |-> 0,
           access_token |-> <<>>, www_authenticate |-> "", items |-> <<>>,
           request |-> <<>>]

\* booking_id: the number a 201 carries, or the number the request was about
Response(op, status, detail, bookid) ==
    [op |-> op, status |-> status, detail |-> detail, booking_id |-> bookid,
     access_token |-> <<>>,
     \* both places that raise a 401 set headers={"WWW-Authenticate": "Bearer"}
     www_authenticate |-> IF status = 401 THEN "Bearer" ELSE "",
     items |-> <<>>, request |-> <<>>]

\* {"access_token": access_token, "token_type": "bearer"}
TokenResponse(op, access_token) ==
    [op |-> op, status |-> 200, detail |-> "bearer", booking_id |-> 0,
     access_token |-> <<access_token>>, www_authenticate |-> "", items |-> <<>>,
     request |-> <<>>]

\* a handler that returns a list: 200 and the list as the body
ListResponse(op, items) == [Response(op, 200, "", 0) EXCEPT !.items = items]

\* response r to a request with the query parameters q
Asked(q, r) == [r EXCEPT !.request = <<q>>]

NoClient == [creds |-> {}, token |-> <<>>]

\* the client keeps the token of a response, with the time and the call it got it from
Keep(r) == [client EXCEPT !.token = <<[token |-> r.access_token[1], at |-> now,
                                       from |-> r.op]>>]

\* the handler of worker p ends with response r
\* a get_db without try/finally: the session stays open when the handler raised
Finish_Leaky(p, r) ==
    /\ proc' = [proc EXCEPT ![p] = Idle]
    /\ resp' = [resp EXCEPT ![p] = r]
    /\ sessions' = IF r.status >= 400 THEN sessions \cup {p} ELSE sessions \ {p}

\* get_db closes the session in its finally clause, however the handler ended
Finish(p, r) ==
    /\ proc' = [proc EXCEPT ![p] = Idle]
    /\ resp' = [resp EXCEPT ![p] = r]
    /\ sessions' = sessions \ {p}

\* the handler of worker p moves on with locals q
\* (get_db has opened the session of the request)
Goto(p, q) ==
    /\ proc' = [proc EXCEPT ![p] = q]
    /\ resp' = [resp EXCEPT ![p] = NoResp]
    /\ sessions' = sessions \cup {p}

(* The record of a run of create-booking calls on schedule k: it starts    *)
(* when a call finds the schedule without bookings, holds the responses of *)
(* the first seatsmax + 1 calls, and ends with a deletion. `fresh` tells   *)
(* whether the run started without a cached count for the schedule.        *)
NoRun == [on |-> FALSE, fresh |-> FALSE, log |-> <<>>]

RunStart(k) ==
    IF BookingsOf(k) = {}
    THEN [run EXCEPT ![k] = [on |-> TRUE,
                             fresh |-> ~redis_available \/ cache[KeyOf(k)] = <<>>,
                             log |-> <<>>]]
    ELSE run

RunLog(k, r) ==
    IF run[k].on /\ Len(run[k].log) <= sflight[k].seatsmax
    THEN [run EXCEPT ![k].log = Append(@, <<r.status, r.booking_id>>)]
    ELSE run

\* a create-booking call on schedule k ends with response r
FinishCreate(p, k, r) == Finish(p, r) /\ run' = RunLog(k, r)

----------------------------------------------------------------------------
(* The store as the seeding utility leaves it.                             *)
SeedUsers ==
    { [id |-> 1, username |-> "admin", email |-> "admin@example.com",
       hashed_password |-> get_password_hash("123", "s1"), disabled |-> FALSE],
      [id |-> 2, username |-> "user1", email |-> "user1@example.com",
       hashed_password |-> get_password_hash("user123", "s1"), disabled |-> FALSE],
      [id |-> 3, username |-> "alice", email |-> "alice@example.com",
       hashed_password |-> get_password_hash("secret", "s2"), disabled |-> FALSE] }

SeedCustomers == {[mandt |-> MANDT, id |-> u.id, name |-> u.username] : u \in SeedUsers}

\* carriers = [('SU', ...), ('LH', ...), ('BA', ...)]; airports = [(1001, ...), ...]
Carriers == {"SU", "LH", "BA"}
Airports == {1001, 1002, 1003, 1004}

\* the seeding utility is not running
SeedOff == [pc |-> "off", starts |-> 0, done |-> 0, i |-> 0, pending |-> {},
            open |-> FALSE, failed |-> ""]

Init ==
    /\ users = SeedUsers
    /\ user_id_seq = Cardinality(SeedUsers)
    /\ scust = SeedCustomers
    /\ \E n \in 1..MaxSeats :
          sflight = [k \in FlightKeys |-> [seatsmax |-> IF k = K1 THEN n ELSE 1]]
    /\ spfli = SchedKeys
    /\ sbook = {}
    /\ redis_up \in BOOLEAN
    /\ redis_available = redis_up
    /\ cache = [key \in CacheKeys |-> <<>>]
    /\ now = 0
    /\ proc = [p \in Workers |-> Idle]
    /\ resp = [p \in Workers |-> NoResp]
    /\ run = [k \in SchedKeys |-> NoRun]
    /\ client = NoClient
    /\ scarr = Carriers
    /\ sairport = Airports
    /\ seed = SeedOff
    /\ sessions = {}
    /\ written = [key \in CacheKeys |-> <<>>]

----------------------------------------------------------------------------
(* What a client can present as a bearer token: a token a login issued,    *)
(* or one signed with another key.                                         *)
TokenOf(name) == [sub |-> <<name>>, exp |-> now + ACCESS_TOKEN_EXPIRE_MINUTES,
                  key |-> SECRET_KEY]

Forged(token) == [token EXCEPT !.key = "forged"]

PresentedTokens == {TokenOf("admin"), TokenOf("user1"), Forged(TokenOf("admin"))}

\* the bookings handlers leave the users, the customers and the client's notes alone
SeedUnchanged == UNCHANGED <<scarr, sairport, seed, written>>
AuthUnchanged == UNCHANGED <<users, user_id_seq, scust, client>> /\ SeedUnchanged
StoreUnchanged == AuthUnchanged /\ UNCHANGED <<sflight, spfli, sbook>>
FlightsUnchanged == UNCHANGED <<sflight, spfli, sbook, run>>
RedisUnchanged == UNCHANGED <<redis_available, redis_up, cache>>

----------------------------------------------------------------------------
(* POST /api_v1/booking, create_booking.                                   *)

\* The dependency get_current_user and the schedule query (401 / 404).
CreateBookingStart(p, token, k) ==
    /\ proc[p].pc = "idle"
    /\ SetMax(BookIds(k), 0) < MaxBookId
    /\ LET current_user == get_current_user(token)
       IN  IF current_user = <<>>
           THEN /\ Finish(p, Response("create", 401, "Could not validate credentials", 0))
                /\ UNCHANGED run
           ELSE IF k \notin spfli \/ k \notin DOMAIN sflight
           THEN /\ Finish(p, Response("create", 404, "flight not found", 0))
                /\ UNCHANGED run
           ELSE /\ Goto(p, [Idle EXCEPT !.pc = "cb_get", !.user = current_user[1].id,
                                        !.sched = k])
                /\ run' = RunStart(k)
    /\ StoreUnchanged /\ RedisUnchanged /\ UNCHANGED now

\* the 400 check once `available` is known; `next` is where the handler goes on
CheckAvailable(p, available, bookid, next) ==
    IF available <= 0
    THEN FinishCreate(p, proc[p].sched, Response("create", 400, "no seats", 0))
    ELSE /\ Goto(p, [proc[p] EXCEPT !.pc = next, !.available = available,
                                    !.bookid = bookid])
         /\ UNCHANGED run

\* available = get_available_seats_from_cache(...)
CreateBookingCacheGet(p) ==
    /\ proc[p].pc = "cb_get"
    /\ LET k == proc[p].sched
           got == get_available_seats_from_cache(k[1], k[2], Strftime(k[3]))
       IN  IF got.raised
           THEN FinishCreate(p, k, Response("create", 500, "ConnectionError", 0))
           ELSE IF got.value = <<>>
           THEN Goto(p, [proc[p] EXCEPT !.pc = "cb_load"]) /\ UNCHANGED run
           ELSE CheckAvailable(p, got.value[1], 0, "cb_bookid")
    /\ StoreUnchanged /\ RedisUnchanged /\ UNCHANGED now

\* a handler that numbers a booking by the count of the schedule's bookings
CreateBookingLoad_Counting(p) ==
    /\ proc[p].pc = "cb_load"
    /\ LET k == proc[p].sched
           booked == Cardinality(BookingsOf(k))
           available == Max(0, sflight[k].seatsmax - booked)
       IN  Goto(p, [proc[p] EXCEPT !.pc = "cb_set1", !.available = available,
                                   !.bookid = booked + 1])
    /\ StoreUnchanged /\ RedisUnchanged /\ UNCHANGED <<now, run>>

\* cache miss: booked = len(spfli.bookings); available = max(0, seatsmax - booked).
\* The collection stays loaded in the session: the booking number is taken from it.
CreateBookingLoad(p) ==
    /\ proc[p].pc = "cb_load"
    /\ LET k == proc[p].sched
           booked == Cardinality(BookingsOf(k))
           available == Max(0, sflight[k].seatsmax - booked)
       IN  Goto(p, [proc[p] EXCEPT !.pc = "cb_set1", !.available = available,
                                   !.bookid = SetMax(BookIds(k), 0) + 1])
    /\ StoreUnchanged /\ RedisUnchanged /\ UNCHANGED <<now, run>>

\* cache miss: set_available_seats_in_cache(..., available), then the 400 check
CreateBookingCacheFill(p) ==
    /\ proc[p].pc = "cb_set1"
    /\ LET k == proc[p].sched
           put == set_available_seats_in_cache(k[1], k[2], Strftime(k[3]),
                                               proc[p].available, DEFAULT_TTL)
       IN  /\ cache' = put.cache
           /\ IF put.raised
              THEN FinishCreate(p, k, Response("create", 500, "ConnectionError", 0))
              ELSE CheckAvailable(p, proc[p].available, proc[p].bookid, "cb_commit")
    /\ StoreUnchanged /\ UNCHANGED <<redis_available, redis_up, now>>

\* cache hit: spfli.bookings is first loaded for the booking number
CreateBookingNumber(p) ==
    /\ proc[p].pc = "cb_bookid"
    /\ Goto(p, [proc[p] EXCEPT !.pc = "cb_commit",
                               !.bookid = SetMax(BookIds(proc[p].sched), 0) + 1])
    /\ StoreUnchanged /\ RedisUnchanged /\ UNCHANGED <<now, run>>

NewBooking(p) ==
    [mandt |-> MANDT, sched |-> proc[p].sched, bookid |-> proc[p].bookid,
     custom_mandt |-> MANDT, custom_id |-> proc[p].user]

\* a table sbook without the primary key
PrimaryKeyTaken_NoKey(b) == FALSE

\* the primary key of sbook: (mandt, carrid, connid, fldate, bookid)
PrimaryKeyTaken(b) ==
    \E x \in sbook : x.mandt = b.mandt /\ x.sched = b.sched /\ x.bookid = b.bookid

\* the foreign key (custom_mandt, custom_id) -> scust
CustomerExists(b) ==
    \E c \in scust : c.mandt = b.custom_mandt /\ c.id = b.custom_id

\* a commit that counts the schedule's bookings again and refuses when it is full
CreateBookingCommit_Rechecked(p) ==
    /\ proc[p].pc = "cb_commit"
    /\ LET b == [mandt |-> MANDT, sched |-> proc[p].sched, bookid |-> proc[p].bookid,
                 custom_mandt |-> MANDT, custom_id |-> proc[p].user]
       IN  IF Cardinality(BookingsOf(b.sched)) >= sflight[b.sched].seatsmax
           THEN /\ sbook' = sbook
                /\ FinishCreate(p, b.sched, Response("create", 400, "no seats", 0))
           ELSE IF \E x \in BookingsOf(b.sched) : x.bookid = b.bookid
           THEN /\ sbook' = sbook
                /\ FinishCreate(p, b.sched,
                                Response("create", 500, "IntegrityError", b.bookid))
           ELSE /\ sbook' = sbook \cup {b}
                /\ Goto(p, [proc[p] EXCEPT !.pc = "cb_set2"])
                /\ UNCHANGED run
    /\ AuthUnchanged /\ RedisUnchanged /\ UNCHANGED <<sflight, spfli, now>>

\* db.add(booking); db.commit(); db.refresh(booking)
CreateBookingCommit(p) ==
    /\ proc[p].pc = "cb_commit"
    /\ LET b == NewBooking(p)
       IN  IF PrimaryKeyTaken(b) \/ ~CustomerExists(b)
           THEN /\ sbook' = sbook
                /\ FinishCreate(p, b.sched,
                                Response("create", 500, "IntegrityError", b.bookid))
           ELSE /\ sbook' = sbook \cup {b}
                /\ Goto(p, [proc[p] EXCEPT !.pc = "cb_set2"])
                /\ UNCHANGED run
    /\ AuthUnchanged /\ RedisUnchanged /\ UNCHANGED <<sflight, spfli, now>>

\* set_available_seats_in_cache(..., available - 1); return 201
CreateBookingCacheUpdate(p) ==
    /\ proc[p].pc = "cb_set2"
    /\ LET k == proc[p].sched
           put == set_available_seats_in_cache(k[1], k[2], Strftime(k[3]),
                                               proc[p].available - 1, DEFAULT_TTL)
       IN  /\ cache' = put.cache
           /\ IF put.raised
              THEN FinishCreate(p, k, Response("create", 500, "ConnectionError", 0))
              ELSE FinishCreate(p, k, Response("create", 201, "created", proc[p].bookid))
    /\ StoreUnchanged /\ UNCHANGED <<redis_available, redis_up, now>>

CreateBooking(p, Tokens, Keys) ==
    \/ \E token \in Tokens, k \in Keys : CreateBookingStart(p, token, k)
    \/ CreateBookingCacheGet(p)
    \/ CreateBookingLoad(p)
    \/ CreateBookingCacheFill(p)
    \/ CreateBookingNumber(p)
    \/ CreateBookingCommit(p)
    \/ CreateBookingCacheUpdate(p)

----------------------------------------------------------------------------
(* DELETE /api_v1/booking/{bookid}, delete_booking.                        *)

\* get_current_user; db.query(SBook).filter_by(bookid=bookid).first() returns
\* any one of the rows with that number; then the 404 and 403 checks
DeleteBookingStart(p, token, bookid) ==
    /\ proc[p].pc = "idle"
    /\ LET current_user == get_current_user(token)
           rows == {b \in sbook : b.bookid = bookid}
       IN  IF current_user = <<>>
           THEN Finish(p, Response("delete", 401, "Could not validate credentials", bookid))
           ELSE IF rows = {}
           THEN Finish(p, Response("delete", 404, "booking not found", bookid))
           ELSE \E book \in rows :
                   IF book.custom_id # current_user[1].id
                   THEN Finish(p, Response("delete", 403, "not enough rights", bookid))
                   ELSE Goto(p, [Idle EXCEPT !.pc = "db_commit",
                                             !.user = current_user[1].id,
                                             !.sched = book.sched, !.bookid = bookid])
    /\ StoreUnchanged /\ RedisUnchanged /\ UNCHANGED <<now, run>>

\* a deletion that also drops the cached count of the booking's schedule
DeleteBookingCommit_Invalidating(p) ==
    /\ proc[p].pc = "db_commit"
    /\ LET rows == {b \in sbook : b.sched = proc[p].sched /\ b.bookid = proc[p].bookid}
       IN  /\ sbook' = sbook \ rows
           /\ Finish(p, Response("delete", IF rows = {} THEN 500 ELSE 200, "deleted",
                                 proc[p].bookid))
           /\ run' = [run EXCEPT ![proc[p].sched] = NoRun]
    /\ cache' = [cache EXCEPT ![KeyOf(proc[p].sched)] = <<>>]
    /\ AuthUnchanged /\ UNCHANGED <<redis_available, redis_up, sflight, spfli, now>>

\* a deletion that takes the other bookings of the schedule along
DeleteBookingCommit_Cascading(p) ==
    /\ proc[p].pc = "db_commit"
    /\ LET rows == {b \in sbook : b.sched = proc[p].sched}
       IN  /\ sbook' = sbook \ rows
           /\ Finish(p, Response("delete", IF rows = {} THEN 500 ELSE 200, "deleted",
                                 proc[p].bookid))
           /\ run' = [run EXCEPT ![proc[p].sched] = NoRun]
    /\ AuthUnchanged /\ RedisUnchanged /\ UNCHANGED <<sflight, spfli, now>>

\* db.delete(book); db.commit(): the row is removed, or it is already gone
DeleteBookingCommit(p) ==
    /\ proc[p].pc = "db_commit"
    /\ LET rows == {b \in sbook : b.sched = proc[p].sched /\ b.bookid = proc[p].bookid}
       IN  IF rows = {}
           THEN /\ sbook' = sbook
                /\ Finish(p, Response("delete", 500, "StaleDataError", proc[p].bookid))
                /\ UNCHANGED run
           ELSE /\ sbook' = sbook \ rows
                /\ Finish(p, Response("delete", 200, "deleted", proc[p].bookid))
                /\ run' = [run EXCEPT ![proc[p].sched] = NoRun]
    /\ AuthUnchanged /\ RedisUnchanged /\ UNCHANGED <<sflight, spfli, now>>

DeleteBooking(p, Tokens) ==
    \/ \E token \in Tokens, bookid \in 1..MaxBookId :
          DeleteBookingStart(p, token, bookid)
    \/ DeleteBookingCommit(p)

----------------------------------------------------------------------------
(* The Redis service: it can become unreachable and reachable again, and   *)
(* an entry is dropped when its time to live has run out.                  *)
RedisDown ==
    /\ redis_up
    /\ redis_up' = FALSE
    /\ StoreUnchanged /\ UNCHANGED <<redis_available, cache, now, proc, resp, sessions, run>>

RedisUp ==
    /\ ~redis_up
    /\ redis_up' = TRUE
    /\ StoreUnchanged /\ UNCHANGED <<redis_available, cache, now, proc, resp, sessions, run>>

RedisExpire(key) ==
    /\ cache[key] # <<>>
    /\ cache' = [cache EXCEPT ![key] = <<>>]
    /\ StoreUnchanged /\ UNCHANGED <<redis_available, redis_up, now, proc, resp, sessions, run>>

----------------------------------------------------------------------------
(* One worker handles one request at a time; requests are for the         *)
(* schedule K1 or for K3, which has no schedule row. The Redis service     *)
(* can drop out and come back at any moment.                               *)
Next ==
    \/ CreateBooking("w1", PresentedTokens, {K1, K3})
    \/ DeleteBooking("w1", PresentedTokens)
    \/ RedisDown
    \/ RedisUp
    \/ \E key \in CacheKeys : RedisExpire(key)

Spec == Init /\ [][Next]_vars

(* The same with a Redis service that stays as the process found it at     *)
(* start: reachable (caching on) or unreachable (caching off).             *)
NextStable ==
    \/ CreateBooking("w1", PresentedTokens, {K1, K3})
    \/ DeleteBooking("w1", PresentedTokens)
    \/ \E key \in CacheKeys : RedisExpire(key)

SpecStable == Init /\ [][NextStable]_vars

(* One worker, bookings on the two schedules K1 and K2.                    *)
NextTwo ==
    \/ CreateBooking("w1", PresentedTokens, SchedKeys)
    \/ DeleteBooking("w1", PresentedTokens)

SpecTwo == Init /\ [][NextTwo]_vars

(* Two workers: the handlers of create-booking requests of admin and of   *)
(* user1 for the same schedule interleave.                                 *)
NextRace ==
    \/ CreateBooking("w1", {TokenOf("admin")}, {K1})
    \/ CreateBooking("w2", {TokenOf("user1")}, {K1})
    \/ \E key \in CacheKeys : RedisExpire(key)

SpecRace == Init /\ [][NextRace]_vars

----------------------------------------------------------------------------
(* POST /api_v1/register, register.                                        *)
Salts == {"s1", "s2"}

\* existing_by_username: 400, or on to the email check
RegisterStart(p, payload) ==
    /\ proc[p].pc = "idle"
    /\ user_id_seq < MaxUserId
    /\ IF \E u \in users : u.username = payload.username
       THEN Finish(p, Response("register", 400, "username exists", 0))
       ELSE Goto(p, [Idle EXCEPT !.pc = "rg_email", !.payload = payload])
    /\ AuthUnchanged /\ FlightsUnchanged /\ RedisUnchanged /\ UNCHANGED now

\* existing_by_email: 400, or on to the insert
RegisterCheckEmail(p) ==
    /\ proc[p].pc = "rg_email"
    /\ IF \E u \in users : u.email = proc[p].payload.email
       THEN Finish(p, Response("register", 400, "email exists", 0))
       ELSE Goto(p, [proc[p] EXCEPT !.pc = "rg_user"])
    /\ AuthUnchanged /\ FlightsUnchanged /\ RedisUnchanged /\ UNCHANGED now

\* a table users without unique constraints
UniqueTaken_NoConstraint(username, email) == FALSE

\* the unique constraints of users.username and users.email
UniqueTaken(username, email) ==
    \E u \in users : u.username = username \/ u.email = email

\* db.add(db_user); db.commit(); db.refresh(db_user): the id comes from the
\* sequence, which does not give a value back when the insert fails
RegisterCommitUser(p) ==
    /\ proc[p].pc = "rg_user"
    /\ \E salt \in Salts :
          LET payload == proc[p].payload
              db_user == [id |-> user_id_seq + 1, username |-> payload.username,
                          email |-> payload.email,
                          hashed_password |-> get_password_hash(payload.password, salt),
                          disabled |-> FALSE]
          IN  /\ user_id_seq' = db_user.id
              /\ IF UniqueTaken(payload.username, payload.email)
                 THEN /\ users' = users
                      /\ Finish(p, Response("register", 500, "IntegrityError", 0))
                 ELSE /\ users' = users \cup {db_user}
                      /\ Goto(p, [proc[p] EXCEPT !.pc = "rg_cust", !.user = db_user.id])
    /\ FlightsUnchanged /\ RedisUnchanged /\ SeedUnchanged
    /\ UNCHANGED <<scust, client, now>>

\* db.add(scust_entry); db.commit(); then the token, with the default lifetime
RegisterCommitCust(p) ==
    /\ proc[p].pc = "rg_cust"
    /\ LET payload == proc[p].payload
           scust_entry == [mandt |-> MANDT, id |-> proc[p].user, name |-> payload.username]
       IN  IF \E c \in scust : c.mandt = scust_entry.mandt /\ c.id = scust_entry.id
           THEN /\ scust' = scust
                /\ Finish(p, Response("register", 500, "IntegrityError", 0))
                /\ UNCHANGED client
           ELSE LET r == TokenResponse("register",
                                       create_access_token(<<payload.username>>, 0))
                IN  /\ scust' = scust \cup {scust_entry}
                    /\ Finish(p, r)
                    /\ client' = [Keep(r) EXCEPT !.creds = @ \cup
                                     {[username |-> payload.username,
                                       password |-> payload.password]}]
    /\ FlightsUnchanged /\ RedisUnchanged /\ SeedUnchanged
    /\ UNCHANGED <<users, user_id_seq, now>>

Register(p, Payloads) ==
    \/ \E payload \in Payloads : RegisterStart(p, payload)
    \/ RegisterCheckEmail(p)
    \/ RegisterCommitUser(p)
    \/ RegisterCommitCust(p)

----------------------------------------------------------------------------
(* POST /api_v1/login, login.                                              *)
\* a login that tells an unknown username from a wrong password
Login_Telling(p, username, password) ==
    /\ proc[p].pc = "idle"
    /\ IF get_user_by_username(username) = <<>>
       THEN Finish(p, Response("login", 401, "unknown username", 0))
       ELSE Finish(p, Response("login", 401, "wrong username or password", 0))
    /\ AuthUnchanged /\ FlightsUnchanged /\ RedisUnchanged /\ UNCHANGED now

Login(p, username, password) ==
    /\ proc[p].pc = "idle"
    /\ LET user == authenticate_user(username, password)
       IN  IF user = <<>>
           THEN /\ Finish(p, Response("login", 401, "wrong username or password", 0))
                /\ UNCHANGED client
           ELSE LET r == TokenResponse("login",
                            create_access_token(<<user[1].username>>,
                                                ACCESS_TOKEN_EXPIRE_MINUTES))
                IN  Finish(p, r) /\ client' = Keep(r)
    /\ FlightsUnchanged /\ RedisUnchanged /\ SeedUnchanged
    /\ UNCHANGED <<users, user_id_seq, scust, now>>

(* A request to a protected endpoint with the token the client holds, as   *)
(* far as its dependency get_current_user: 401, or the user it resolves.   *)
CurrentUser(p) ==
    /\ proc[p].pc = "idle"
    /\ client.token # <<>>
    /\ LET user == get_current_user(client.token[1].token)
       IN  IF user = <<>>
           THEN Finish(p, Response("current_user", 401, "Could not validate credentials", 0))
           ELSE Finish(p, Response("current_user", 200, user[1].username, 0))
    /\ AuthUnchanged /\ FlightsUnchanged /\ RedisUnchanged /\ UNCHANGED now

\* a minute passes
Tick ==
    /\ now < MaxTime
    /\ now' = now + 1
    /\ AuthUnchanged /\ FlightsUnchanged /\ RedisUnchanged
    /\ UNCHANGED <<proc, resp, sessions>>

----------------------------------------------------------------------------
(* One worker: registrations with new and with used names and addresses,   *)
(* logins with right and wrong credentials, requests with the token held.  *)
Usernames == {"alice", "bob", "carol"}
Emails == {"alice@example.com", "bob@example.com", "carol@example.com"}
Payloads == {[username |-> n, email |-> e, password |-> "pw"] : n \in Usernames, e \in Emails}
LoginNames == {"admin", "bob", "nobody"}
LoginPasswords == {"123", "pw"}

NextAuth ==
    \/ Register("w1", Payloads)
    \/ \E n \in LoginNames, pw \in LoginPasswords : Login("w1", n, pw)
    \/ CurrentUser("w1")

SpecAuth == Init /\ [][NextAuth]_vars

(* One worker and the clock: tokens are issued and presented as time goes. *)
NextClock ==
    \/ Register("w1", {[username |-> "bob", email |-> "bob@example.com", password |-> "pw"]})
    \/ Login("w1", "admin", "123")
    \/ CurrentUser("w1")
    \/ Tick

SpecClock == Init /\ [][NextClock]_vars

(* Two workers: the handlers of two register requests interleave.          *)
NextReg == \E p \in Workers : Register(p, Payloads)

SpecReg == Init /\ [][NextReg]_vars

----------------------------------------------------------------------------
(* C1: when requests are handled one at a time, no schedule ever holds     *)
(* more bookings than the seatsmax of its flight.                          *)
C1_NoOverbooking ==
    \A k \in SchedKeys : Cardinality(BookingsOf(k)) <= sflight[k].seatsmax

----------------------------------------------------------------------------
(* C6: an unreachable cache service is never surfaced: while it is         *)
(* unreachable, get-cached-seats returns absent and set-cached-seats does  *)
(* nothing, neither raising, and no create-booking call ends with an error *)
(* caused by the cache (only 201, 400, 404, or 401 without a valid token). *)
C6_CacheOutageNeverSurfaced ==
    /\ ~redis_up =>
          \A k \in SchedKeys :
             /\ get_available_seats_from_cache(k[1], k[2], Strftime(k[3]))
                   = [raised |-> FALSE, value |-> <<>>]
             /\ set_available_seats_in_cache(k[1], k[2], Strftime(k[3]), 0, DEFAULT_TTL)
                   = [raised |-> FALSE, cache |-> cache]
    /\ \A p \in Workers :
          resp[p].op = "create" => resp[p].status \in {201, 400, 404, 401}

----------------------------------------------------------------------------
(* C3: a run of create-booking calls that starts on a schedule of capacity *)
(* N without bookings gets 201 with the numbers 1, 2, ..., N and then 400, *)
(* the schedule holding N bookings after the (N+1)-th call.                *)
RunConforms(k) ==
    LET N == sflight[k].seatsmax
        log == run[k].log
    IN  /\ \A i \in 1..Len(log) :
              IF i <= N THEN log[i] = <<201, i>> ELSE log[i] = <<400, 0>>
        /\ Len(log) = N + 1 => Cardinality(BookingsOf(k)) = N

C3_ExhaustedExactly == \A k \in SchedKeys : run[k].on => RunConforms(k)

----------------------------------------------------------------------------
(* C4: for every stored booking b and every authenticated caller, DELETE   *)
(* with b's number goes on to remove b (200) when the caller owns b and is *)
(* refused with 403, removing nothing, when the caller does not; with a    *)
(* number no booking has it is refused with 404; 404 is decided before 403.*)
DeleteDecision(p, token, bookid) ==
    LET u == get_current_user(token)[1].id
        rows == {b \in sbook : b.bookid = bookid}
    IN  /\ rows = {} => resp'[p].status = 404
        /\ \A b \in rows :
              IF b.custom_id = u
              THEN proc'[p].pc = "db_commit" /\ proc'[p].sched = b.sched
              ELSE resp'[p].status = 403 /\ proc'[p].pc = "idle"

DeleteRemoves(p) ==
    LET b == CHOOSE x \in sbook : x.sched = proc[p].sched /\ x.bookid = proc[p].bookid
    IN  /\ resp'[p].status = 200
        /\ sbook' = sbook \ {b}
        /\ b.custom_id = proc[p].user

C4_DeleteOutcomeByCaller ==
    [][\A p \in Workers :
         /\ \A token \in PresentedTokens, bookid \in 1..MaxBookId :
               DeleteBookingStart(p, token, bookid) /\ get_current_user(token) # <<>>
                  => sbook' = sbook /\ DeleteDecision(p, token, bookid)
         /\ DeleteBookingCommit(p) => DeleteRemoves(p)]_vars

----------------------------------------------------------------------------
(* C5: a step of delete-booking leaves every seat-cache entry as it was;   *)
(* a create-booking that reads a cached count of 0 is refused with 400 and *)
(* stores nothing, also when the store has a free seat; a create-booking   *)
(* that found no entry is refused with 400 only when the schedule is full, *)
(* and otherwise ends with 201.                                            *)
CachedCount(k) == StrToInt(cache[KeyOf(k)][1].value)

StaleZero(k) ==
    /\ redis_available /\ redis_up
    /\ cache[KeyOf(k)] # <<>> /\ CachedCount(k) = 0
    /\ Cardinality(BookingsOf(k)) < sflight[k].seatsmax

Ends(p) == proc[p].pc # "idle" /\ proc'[p].pc = "idle"

C5_DeleteLeavesCache ==
    [][/\ DeleteBooking("w1", PresentedTokens) => cache' = cache
       /\ \A p \in Workers :
             /\ CreateBookingCacheGet(p) /\ StaleZero(proc[p].sched)
                   => resp'[p].status = 400 /\ Ends(p) /\ sbook' = sbook
             /\ Ends(p) /\ proc[p].pc \in {"cb_load", "cb_set1", "cb_commit", "cb_set2"}
                   => \/ resp'[p].status = 201
                      \/ /\ resp'[p].status = 400
                         /\ proc[p].pc = "cb_set1"
                         /\ Cardinality(BookingsOf(proc[p].sched))
                               >= sflight[proc[p].sched].seatsmax]_vars

\* a create has just been refused on the stale count of an empty schedule
C5_Witness ==
    /\ resp["w1"].op = "create" /\ resp["w1"].status = 400
    /\ proc["w1"].pc = "idle"
    /\ BookingsOf(K1) = {}
    /\ StaleZero(K1)

----------------------------------------------------------------------------
(* C2: creation is racy. The availability check is not repeated at commit: *)
(* a handler at its commit stores its booking whenever its number is free, *)
(* also on a schedule that is full by then, and when the number has been   *)
(* taken meanwhile it ends with the database's IntegrityError (500, not    *)
(* the 400 'no seats'), storing nothing; a state with an over-booked       *)
(* schedule and a handler failed on such a collision is reachable.         *)
Overbooked(k) == Cardinality(BookingsOf(k)) > sflight[k].seatsmax

Collided(p) == resp[p].op = "create" /\ resp[p].detail = "IntegrityError"

C2_RacyCreation ==
    [][\A p \in Workers :
         /\ CreateBookingCommit(p) =>
               IF \E x \in BookingsOf(proc[p].sched) : x.bookid = proc[p].bookid
               THEN /\ sbook' = sbook
                    /\ Collided(p)' /\ resp'[p].status = 500
               ELSE /\ sbook' = sbook \cup {NewBooking(p)}
                    /\ proc'[p].pc = "cb_set2"
         /\ Collided(p)' =>
               \E x \in BookingsOf(K1)' : x.bookid = resp'[p].booking_id]_vars

\* both outcomes of the race in one state
C2_Witness ==
    /\ Overbooked(K1)
    /\ \E p \in Workers : Collided(p)

----------------------------------------------------------------------------
(* C7: the handler takes as booking number 1 + the largest number among    *)
(* the schedule's bookings (1 when there are none); the booking it stores  *)
(* has that number, client '100' and the current user's id as owner, and a *)
(* 201 carries the number of a booking that is stored; no two stored       *)
(* bookings of one schedule have the same number.                          *)
UniqueNumbers ==
    \A x, y \in sbook :
       x.mandt = y.mandt /\ x.sched = y.sched /\ x.bookid = y.bookid => x = y

C7_NumberAssignment ==
    /\ UniqueNumbers
    /\ [][/\ UniqueNumbers'
          /\ \A p \in Workers :
               /\ proc[p].pc = "idle" /\ proc'[p].pc = "cb_get"
                     => \A token \in PresentedTokens :
                           CreateBookingStart(p, token, K1)
                              => \E u \in users : /\ <<u.username>> = token.sub
                                                  /\ proc'[p].user = u.id
               /\ CreateBookingLoad(p) \/ CreateBookingNumber(p)
                     => proc'[p].bookid = 1 + SetMax(BookIds(proc[p].sched), 0)
               /\ CreateBookingCommit(p) /\ sbook' # sbook
                     => /\ proc[p].bookid = 1 + SetMax(BookIds(proc[p].sched), 0)
                        /\ sbook' \ sbook =
                             {[mandt |-> "100", sched |-> proc[p].sched,
                               bookid |-> proc[p].bookid,
                               custom_mandt |-> "100", custom_id |-> proc[p].user]}
               /\ CreateBookingCacheUpdate(p) /\ resp'[p].status = 201
                     => \E b \in BookingsOf(proc[p].sched) :
                           /\ b.bookid = resp'[p].booking_id
                           /\ b.custom_id = proc[p].user]_vars

\* the two users hold bookings 1 and 2 of the schedule
C7_Witness ==
    /\ \E x, y \in BookingsOf(K1) :
          x.bookid = 1 /\ y.bookid = 2 /\ x.custom_id # y.custom_id
    /\ \E p \in Workers : resp[p].status = 201 /\ resp[p].booking_id = 2

----------------------------------------------------------------------------
(* C8: a registration whose username and email are both unused passes both *)
(* checks, stores the user and is answered 200 with a bearer token whose   *)
(* 'sub' is the username; from then on, in every state, a login with the   *)
(* same username and password is answered 200 with a token whose 'sub' is  *)
(* the username and which get_current_user resolves to that user.          *)
Unused(payload) ==
    \A u \in users : u.username # payload.username /\ u.email # payload.email

LoginWorks(c) ==
    LET user == authenticate_user(c.username, c.password)
    IN  /\ user # <<>>
        /\ user[1].username = c.username
        /\ LET access_token == create_access_token(<<user[1].username>>,
                                                   ACCESS_TOKEN_EXPIRE_MINUTES)
           IN  /\ access_token.sub = <<c.username>>
               /\ get_current_user(access_token) = user

C8_RegisterThenLogin ==
    [][/\ \A c \in client'.creds : LoginWorks(c)'
       /\ \A p \in Workers :
            /\ \A payload \in Payloads :
                  RegisterStart(p, payload) /\ Unused(payload)
                     => proc'[p].pc = "rg_email"
            /\ RegisterCheckEmail(p) /\ Unused(proc[p].payload)
                  => proc'[p].pc = "rg_user"
            /\ RegisterCommitUser(p) /\ Unused(proc[p].payload)
                  => /\ proc'[p].pc = "rg_cust"
                     /\ \E u \in users' \ users :
                           /\ u.username = proc[p].payload.username
                           /\ u.email = proc[p].payload.email
            /\ RegisterCommitCust(p)
                  => /\ resp'[p].status = 200
                     /\ resp'[p].access_token # <<>>
                     /\ resp'[p].access_token[1].sub = <<proc[p].payload.username>>
                     /\ [username |-> proc[p].payload.username,
                         password |-> proc[p].payload.password] \in client'.creds
            /\ \A n \in LoginNames, pw \in LoginPasswords :
                  Login(p, n, pw) /\ [username |-> n, password |-> pw] \in client.creds
                     => /\ resp'[p].status = 200
                        /\ resp'[p].access_token[1].sub = <<n>>]_vars

\* bob has registered and has then logged in
C8_Witness ==
    /\ [username |-> "bob", password |-> "pw"] \in client.creds
    /\ resp["w1"].op = "login" /\ resp["w1"].status = 200
    /\ resp["w1"].access_token[1].sub = <<"bob">>

----------------------------------------------------------------------------
(* C9: a registration whose username exists is refused with 400 'username  *)
(* exists', also when its email exists as well; one whose username is      *)
(* unused but whose email exists is refused with 400 'email exists'; a     *)
(* refused registration leaves users and customers as they were; the       *)
(* stored users have pairwise distinct usernames and emails, also when     *)
(* registrations overlap.                                                  *)
DistinctUsers ==
    \A u, v \in users : u.username = v.username \/ u.email = v.email => u = v

Refused(p, detail) ==
    /\ resp'[p].op = "register" /\ resp'[p].status = 400 /\ resp'[p].detail = detail
    /\ proc'[p].pc = "idle"
    /\ users' = users /\ scust' = scust

C9_DuplicateRejected ==
    [][/\ DistinctUsers'
       /\ \A p \in Workers :
            /\ \A payload \in Payloads :
                  /\ RegisterStart(p, payload)
                  /\ \E u \in users : u.username = payload.username
                  => Refused(p, "username exists")
            /\ /\ RegisterCheckEmail(p)
               /\ \E u \in users : u.email = proc[p].payload.email
               => Refused(p, "email exists")
            /\ resp'[p].status = 400 /\ resp[p] # resp'[p]
                  => users' = users /\ scust' = scust]_vars

\* one registration was refused for its email, the other lost the race for a name
C9_Witness ==
    /\ resp["w1"].op = "register" /\ resp["w1"].detail = "email exists"
    /\ resp["w2"].op = "register" /\ resp["w2"].detail = "IntegrityError"
    /\ Cardinality(users) > Cardinality(SeedUsers)

----------------------------------------------------------------------------
(* C10: the token of a registration expires 15 minutes after it was        *)
(* issued, the token of a login 30 minutes after; get_current_user         *)
(* resolves the token's user at every time before exp and answers 401 at   *)
(* every time after exp: a login's token is accepted 29 minutes after it   *)
(* was issued and rejected 31 minutes after.                               *)
Accepted(h) ==
    /\ get_current_user(h.token) # <<>>
    /\ <<get_current_user(h.token)[1].username>> = h.token.sub

TokenWindow(h) ==
    /\ h.from = "register" => h.token.exp = h.at + 15
    /\ h.from = "login" => h.token.exp = h.at + 30
    /\ now < h.token.exp => Accepted(h)
    /\ now > h.token.exp => get_current_user(h.token) = <<>>
    /\ h.from = "login" /\ now = h.at + 29 => Accepted(h)
    /\ h.from = "login" /\ now = h.at + 31 => ~Accepted(h)

C10_TokenWindow ==
    [][/\ client'.token # <<>> => TokenWindow(client.token[1])'
       /\ \A p \in Workers :
            CurrentUser(p) =>
               /\ now < client.token[1].token.exp => resp'[p].status = 200
               /\ now > client.token[1].token.exp => resp'[p].status = 401]_vars

\* a login's token has just been rejected 31 minutes after it was issued
C10_Witness ==
    /\ client.token # <<>>
    /\ client.token[1].from = "login"
    /\ now = client.token[1].at + 31
    /\ resp["w1"].op = "current_user" /\ resp["w1"].status = 401

----------------------------------------------------------------------------
(* Tokens get_current_user cannot accept: one that is no JWT, one signed   *)
(* with another key, one that has expired, one without 'sub', and one      *)
(* whose 'sub' names no user.                                              *)
Malformed == [sub |-> <<>>, exp |-> 0, key |-> "not a jwt"]
Expired(token) == [token EXCEPT !.exp = now - 1]
WithoutSub(token) == [token EXCEPT !.sub = <<>>]
OfNobody == TokenOf("nobody")

BadTokens ==
    {Malformed, Forged(TokenOf("admin")), Expired(TokenOf("admin")),
     WithoutSub(TokenOf("admin")), OfNobody}

GateTokens == {TokenOf("admin"), TokenOf("user1")} \cup BadTokens

(* One worker, requests with tokens of every kind.                         *)
NextGate ==
    \/ CreateBooking("w1", GateTokens, {K1})
    \/ DeleteBooking("w1", GateTokens)

SpecGate == Init /\ [][NextGate]_vars

(* C11: get_current_user fails for a token that cannot be decoded, that is *)
(* signed with another key, that has expired, that has no 'sub' or whose   *)
(* 'sub' names no user; a create-booking or delete-booking request with a  *)
(* token it fails for is answered 401 and leaves the bookings and the seat *)
(* cache as they were; the bookings table changes only in a request whose  *)
(* token resolved to an existing user.                                     *)
Rejected(p) ==
    /\ resp'[p].status = 401
    /\ resp'[p].detail = "Could not validate credentials"
    /\ proc'[p].pc = "idle"
    /\ sbook' = sbook /\ cache' = cache

C11_GatedByCurrentUser ==
    [][/\ \A token \in BadTokens : get_current_user(token) = <<>>
       /\ \A p \in Workers :
            /\ proc[p].pc = "idle" /\ proc'[p].pc = "idle" /\ resp'[p] # resp[p]
                  => \A token \in GateTokens :
                        /\ get_current_user(token) = <<>>
                        /\ \/ CreateBookingStart(p, token, K1)
                           \/ \E bookid \in 1..MaxBookId : DeleteBookingStart(p, token, bookid)
                        => Rejected(p)
            /\ proc[p].pc # "idle" => \E u \in users : u.id = proc[p].user
       /\ sbook' # sbook =>
             \E p \in Workers : /\ proc[p].pc \in {"cb_commit", "db_commit"}
                                /\ \E u \in users : u.id = proc[p].user]_vars

\* a request with a bad token has been answered 401 while a booking is stored
C11_Witness ==
    /\ resp["w1"].status = 401
    /\ sbook # {}
    /\ proc["w1"].pc = "idle"

----------------------------------------------------------------------------
(* C12: authenticate_user returns the user exactly for a stored username   *)
(* with the password it was stored with; every login it refuses, for a     *)
(* wrong password as for an unknown username, is answered with one and the *)
(* same response: 401, the same detail, the same WWW-Authenticate header.  *)
SeedCredentials ==
    { [username |-> "admin", password |-> "123"],
      [username |-> "user1", password |-> "user123"],
      [username |-> "alice", password |-> "secret"] }

\* the credentials of the stored users: the seeded ones, those whose registration
\* was answered, and those of a registration that has stored its user
StoredCredentials ==
    SeedCredentials \cup client.creds \cup
    { [username |-> proc[p].payload.username, password |-> proc[p].payload.password] :
         p \in {q \in Workers : proc[q].pc = "rg_cust"} }

Authenticates(n, pw) ==
    /\ authenticate_user(n, pw) # <<>>
    /\ authenticate_user(n, pw)[1].username = n

LoginRefused ==
    [op |-> "login", status |-> 401, detail |-> "wrong username or password",
     booking_id |-> 0, access_token |-> <<>>, www_authenticate |-> "Bearer",
     items |-> <<>>, request |-> <<>>]

C12_LoginFailuresAlike ==
    [][\A n \in LoginNames, pw \in LoginPasswords :
         LET known == [username |-> n, password |-> pw] \in StoredCredentials
         IN  /\ Authenticates(n, pw) <=> known
             /\ authenticate_user(n, pw) = <<>> <=> ~known
             /\ \A p \in Workers :
                  Login(p, n, pw) /\ ~known
                     => resp'[p] = LoginRefused /\ client' = client]_vars

\* bob is registered and a login has just been refused
C12_Witness ==
    /\ resp["w1"] = LoginRefused
    /\ \E u \in users : u.username = "bob"

----------------------------------------------------------------------------
(* The two cache functions called on their own, and the Redis clock.       *)
Counts == {0 - 1, 0, 7, 100}

\* set_available_seats_in_cache(carrid, connid, fldate_str, count, ttl)
CacheSet(k, count, ttl) ==
    /\ LET put == set_available_seats_in_cache(k[1], k[2], Strftime(k[3]), count, ttl)
       IN  /\ cache' = put.cache
           /\ written' = IF redis_available /\ ~put.raised
                         THEN [written EXCEPT ![KeyOf(k)] =
                                  <<[count |-> count, ttl |-> ttl, age |-> 0]>>]
                         ELSE written
    /\ UNCHANGED <<users, user_id_seq, scust, client, scarr, sairport, seed>>
    /\ FlightsUnchanged /\ UNCHANGED <<redis_available, redis_up, now, proc, resp, sessions>>

\* a second passes: Redis counts every time to live down and drops what has run out
RedisTick ==
    /\ \E key \in CacheKeys : written[key] # <<>> /\ written[key][1].age <= MaxTtl
    /\ cache' = [key \in CacheKeys |->
                   IF cache[key] = <<>> \/ cache[key][1].ttl <= 1 THEN <<>>
                   ELSE <<[cache[key][1] EXCEPT !.ttl = @ - 1]>>]
    /\ written' = [key \in CacheKeys |->
                     IF written[key] = <<>> \/ written[key][1].age > MaxTtl
                     THEN written[key]
                     ELSE <<[written[key][1] EXCEPT !.age = @ + 1]>>]
    /\ UNCHANGED <<users, user_id_seq, scust, client, scarr, sairport, seed>>
    /\ FlightsUnchanged /\ UNCHANGED <<redis_available, redis_up, now, proc, resp, sessions>>

NextCache ==
    \/ \E k \in SchedKeys, count \in Counts, ttl \in 1..MaxTtl : CacheSet(k, count, ttl)
    \/ RedisTick

SpecCache == Init /\ [][NextCache]_vars

(* C13: with the flag true, a get made less than ttl seconds after the     *)
(* last set of the key returns exactly the count that was set, and absent  *)
(* from ttl seconds on; with the flag false, get returns absent and set    *)
(* changes nothing; neither raises.                                        *)
Got(k) == get_available_seats_from_cache(k[1], k[2], Strftime(k[3]))

C13_CacheRoundTrip ==
    /\ \A k \in SchedKeys :
          /\ ~Got(k).raised
          /\ IF redis_available /\ written[KeyOf(k)] # <<>>
                /\ written[KeyOf(k)][1].age < written[KeyOf(k)][1].ttl
             THEN Got(k).value = <<written[KeyOf(k)][1].count>>
             ELSE Got(k).value = <<>>
    /\ ~redis_available =>
          \A k \in SchedKeys, count \in Counts, ttl \in 1..MaxTtl :
             set_available_seats_in_cache(k[1], k[2], Strftime(k[3]), count, ttl)
                = [raised |-> FALSE, cache |-> cache]

\* a negative count is read back one second after it was set for two seconds,
\* while another key's entry has run out
C13_Witness ==
    /\ redis_available
    /\ written[KeyOf(K1)] = <<[count |-> 0 - 1, ttl |-> MaxTtl, age |-> 1]>>
    /\ Got(K1).value = <<0 - 1>>
    /\ written[KeyOf(K2)] # <<>> /\ Got(K2).value = <<>>

----------------------------------------------------------------------------
(* The seeding utility, fill_data.main. One session for the whole run; a   *)
(* row added to the session is pending until the next commit.              *)
Connids == <<"0001", "0002", "0003", "0004", "0005", "0006", "0007", "0008", "0009",
             "0010", "0011", "0012", "0013", "0014", "0015", "0016", "0017", "0018",
             "0019">>

test_users ==
    << [username |-> "admin", email |-> "admin@example.com", password |-> "123"],
       [username |-> "user1", email |-> "user1@example.com", password |-> "user123"],
       [username |-> "alice", email |-> "alice@example.com", password |-> "secret"] >>

\* random.choice / random.randint, and the salt of a hash: any element in the
\* first DrawDepth iterations of the first run, one fixed element afterwards
Draw(S, i) == IF i <= DrawDepth /\ seed.starts = 1 THEN S ELSE {CHOOSE x \in S : TRUE}

PendingSchedules == {r.key : r \in {x \in seed.pending : x.table = "spfli"}}
PendingCustomers == {r.row : r \in {x \in seed.pending : x.table = "scust"}}

\* the pending rows a commit cannot insert: a customer whose primary key is taken
PendingConflict == \E c \in PendingCustomers, x \in scust : x.mandt = c.mandt /\ x.id = c.id

\* except: session.rollback(); print; raise -- finally: session.close()
SeedRaise(phase) ==
    seed' = [seed EXCEPT !.pc = "off", !.i = 0, !.pending = {}, !.open = FALSE,
                         !.failed = phase]

SeedFrame == /\ RedisUnchanged
             /\ UNCHANGED <<sbook, run, client, now, proc, resp, sessions, written>>

\* Base.metadata.create_all; session = SessionLocal()
SeedStart ==
    /\ seed.pc = "off"
    /\ seed.starts < MaxRuns
    /\ seed' = [seed EXCEPT !.pc = "fixed", !.starts = @ + 1, !.open = TRUE,
                            !.failed = ""]
    /\ SeedFrame
    /\ UNCHANGED <<users, user_id_seq, scust, sflight, spfli, scarr, sairport>>

\* the carriers and the airports that are not there yet, then session.commit()
SeedFixed ==
    /\ seed.pc = "fixed"
    /\ scarr' = scarr \cup Carriers
    /\ sairport' = sairport \cup Airports
    /\ seed' = [seed EXCEPT !.pc = "flights", !.i = 1]
    /\ SeedFrame
    /\ UNCHANGED <<users, user_id_seq, scust, sflight, spfli>>

\* a variant that leaves out a flight whose connid is already there
SeedFlight_Idempotent ==
    /\ seed.pc = "flights"
    /\ \E carr \in Draw(scarr, seed.i), seats \in Draw({50, 100}, seed.i) :
          LET key == <<carr, Connids[seed.i], [sec |-> seed.starts, usec |-> 1]>>
              there == \E k \in DOMAIN sflight : k[2] = key[2]
          IN  /\ sflight' = IF there THEN sflight
                            ELSE [k \in DOMAIN sflight \cup {key} |->
                                    IF k = key THEN [seatsmax |-> seats] ELSE sflight[k]]
              /\ spfli' = spfli \cup PendingSchedules
              /\ seed' = [seed EXCEPT
                            !.pending = IF there THEN {} ELSE {[table |-> "spfli", key |-> key]},
                            !.i = IF seed.i = FLIGHTS_PER_RUN THEN 1 ELSE @ + 1,
                            !.pc = IF seed.i = FLIGHTS_PER_RUN THEN "users" ELSE @]
    /\ SeedFrame
    /\ UNCHANGED <<users, user_id_seq, scust, scarr, sairport>>

\* one iteration of the flights loop: session.add(flight); session.commit(), which
\* also inserts the schedule of the iteration before; session.add(spfli)
SeedFlight ==
    /\ seed.pc = "flights"
    /\ \E carr \in Draw(scarr, seed.i), seats \in Draw({50, 100}, seed.i) :
          \* date = datetime.now() + ...: later in a later run, with microseconds
          LET key == <<carr, Connids[seed.i], [sec |-> seed.starts, usec |-> 1]>>
          IN  IF key \in DOMAIN sflight
              THEN /\ SeedRaise("flights")
                   /\ UNCHANGED <<sflight, spfli>>
              ELSE /\ sflight' = [k \in DOMAIN sflight \cup {key} |->
                                    IF k = key THEN [seatsmax |-> seats] ELSE sflight[k]]
                   /\ spfli' = spfli \cup PendingSchedules
                   /\ seed' = [seed EXCEPT
                                 !.pending = {[table |-> "spfli", key |-> key]},
                                 !.i = IF seed.i = FLIGHTS_PER_RUN THEN 1 ELSE @ + 1,
                                 !.pc = IF seed.i = FLIGHTS_PER_RUN THEN "users" ELSE @]
    /\ SeedFrame
    /\ UNCHANGED <<users, user_id_seq, scust, scarr, sairport>>

\* one iteration of the users loop: nothing when the username or the email is
\* there; else session.add(user); session.commit(), which also inserts what is
\* pending; session.refresh(user); session.add(scust)
SeedUser ==
    /\ seed.pc = "users"
    /\ LET user_data == test_users[seed.i]
           existing == \E u \in users : \/ u.username = user_data.username
                                        \/ u.email = user_data.email
           next == [seed EXCEPT !.i = IF seed.i = Len(test_users) THEN 0 ELSE @ + 1,
                                !.pc = IF seed.i = Len(test_users) THEN "final" ELSE @]
       IN  IF existing
           THEN /\ seed' = next
                /\ UNCHANGED <<users, user_id_seq, scust, spfli>>
           ELSE \E salt \in Draw(Salts, seed.i) :
                   LET user == [id |-> user_id_seq + 1, username |-> user_data.username,
                                email |-> user_data.email,
                                hashed_password |->
                                    get_password_hash(user_data.password, salt),
                                disabled |-> FALSE]
                   IN  /\ user_id_seq' = user.id
                       /\ IF PendingConflict
                          THEN /\ SeedRaise("users")
                               /\ UNCHANGED <<users, scust, spfli>>
                          ELSE /\ users' = users \cup {user}
                               /\ scust' = scust \cup PendingCustomers
                               /\ spfli' = spfli \cup PendingSchedules
                               /\ seed' = [next EXCEPT !.pending =
                                             {[table |-> "scust",
                                               row |-> [mandt |-> MANDT, id |-> user.id,
                                                        name |-> user.username]]}]
    /\ SeedFrame
    /\ UNCHANGED <<sflight, scarr, sairport>>

\* the last session.commit(), then finally: session.close()
SeedFinal ==
    /\ seed.pc = "final"
    /\ IF PendingConflict
       THEN /\ SeedRaise("users")
            /\ UNCHANGED <<scust, spfli>>
       ELSE /\ scust' = scust \cup PendingCustomers
            /\ spfli' = spfli \cup PendingSchedules
            /\ seed' = [seed EXCEPT !.pc = "off", !.pending = {}, !.open = FALSE,
                                    !.done = @ + 1]
    /\ SeedFrame
    /\ UNCHANGED <<users, user_id_seq, sflight, scarr, sairport>>

\* an exception at some point of the user-seeding phase (a query, the hashing
\* or a commit fails)
SeedFail ==
    /\ seed.pc \in {"users", "final"}
    /\ SeedRaise("users")
    /\ SeedFrame
    /\ UNCHANGED <<users, user_id_seq, scust, sflight, spfli, scarr, sairport>>

\* the store before the first run of the seeding utility
InitEmpty ==
    /\ users = {} /\ user_id_seq = 0 /\ scust = {}
    /\ sflight = [k \in {} |-> [seatsmax |-> 0]]
    /\ spfli = {} /\ sbook = {} /\ scarr = {} /\ sairport = {}
    /\ redis_up \in BOOLEAN /\ redis_available = redis_up
    /\ cache = [key \in CacheKeys |-> <<>>]
    /\ now = 0
    /\ proc = [p \in Workers |-> Idle]
    /\ resp = [p \in Workers |-> NoResp]
    /\ run = [k \in SchedKeys |-> NoRun]
    /\ client = NoClient
    /\ seed = SeedOff
    /\ sessions = {}
    /\ written = [key \in CacheKeys |-> <<>>]

NextSeed == SeedStart \/ SeedFixed \/ SeedFlight \/ SeedUser \/ SeedFinal \/ SeedFail

SpecSeed == InitEmpty /\ [][NextSeed]_vars

(* C14: after two runs of the seeding utility, both to completion, on an   *)
(* empty store there is one row for each of the 3 carriers, the 4 airports *)
(* and the 3 demo users and their 3 customers, as after the first run, and *)
(* there are twice 19 flights and twice 19 schedules.                      *)
Seeded(runs) ==
    /\ scarr = Carriers /\ Cardinality(scarr) = 3
    /\ sairport = Airports /\ Cardinality(sairport) = 4
    /\ Cardinality(users) = 3
    /\ {u.username : u \in users} = {"admin", "user1", "alice"}
    /\ scust = {[mandt |-> "100", id |-> u.id, name |-> u.username] : u \in users}
    /\ Cardinality(scust) = 3
    /\ Cardinality(DOMAIN sflight) = 19 * runs
    /\ Cardinality(spfli) = 19 * runs

RunFlights == {k \in DOMAIN sflight : k[3].sec = seed.starts}

C15_FlightsSurviveUserFailure ==
    seed.pc = "off" /\ seed.failed = "users" =>
        /\ ~seed.open /\ seed.pending = {}
        /\ Carriers \subseteq scarr /\ Airports \subseteq sairport
        /\ Cardinality(RunFlights) = 19
        /\ RunFlights \subseteq spfli

\* the part of C15 that holds: rollback, close, and all but the last schedule
C15_AllButLastSchedule ==
    seed.pc = "off" /\ seed.failed = "users" =>
        /\ ~seed.open /\ seed.pending = {}
        /\ Carriers \subseteq scarr /\ Airports \subseteq sairport
        /\ Cardinality(RunFlights) = 19
        /\ \A k \in RunFlights : k[2] # Connids[FLIGHTS_PER_RUN] => k \in spfli

----------------------------------------------------------------------------
(* The flights router. Texts that the code inspects are sequences: a city  *)
(* name is a sequence of one-character strings, an ISO timestamp is a       *)
(* sequence of character codes.                                             *)
Moscow == <<"M", "o", "s", "c", "o", "w">>
London == <<"L", "o", "n", "d", "o", "n">>
Paris == <<"P", "a", "r", "i", "s">>
Berlin == <<"B", "e", "r", "l", "i", "n">>

\* two more seeded flights with their schedules, for the listings
K4 == <<"SU", "0004", [sec |-> 1, usec |-> 5]>>
K5 == <<"LH", "0005", [sec |-> 20, usec |-> 0]>>

\* cityfrom=dep.name, cityto=arr.name of the schedule row with key k
Route(k) ==
    CASE k = K1 -> [cityfrom |-> Moscow, cityto |-> London]
      [] k = K2 -> [cityfrom |-> Paris, cityto |-> Berlin]
      [] k = K4 -> [cityfrom |-> London, cityto |-> Moscow]
      [] OTHER -> [cityfrom |-> Berlin, cityto |-> Paris]

UpperCase == <<"A", "B", "C", "D", "E", "F", "G", "H", "I", "J", "K", "L", "M",
               "N", "O", "P", "Q", "R", "S", "T", "U", "V", "W", "X", "Y", "Z">>
LowerCase == <<"a", "b", "c", "d", "e", "f", "g", "h", "i", "j", "k", "l", "m",
               "n", "o", "p", "q", "r", "s", "t", "u", "v", "w", "x", "y", "z">>

Lower(c) == IF \E i \in DOMAIN UpperCase : UpperCase[i] = c
            THEN LowerCase[CHOOSE i \in DOMAIN UpperCase : UpperCase[i] = c]
            ELSE c

\* text ILIKE pattern: % is any run of characters, _ is any one character,
\* any other character is itself in either case
RECURSIVE ILike(_, _)
ILike(text, pattern) ==
    IF pattern = <<>> THEN text = <<>>
    ELSE IF Head(pattern) = "%"
         THEN \/ ILike(text, Tail(pattern))
              \/ text # <<>> /\ ILike(Tail(text), pattern)
         ELSE /\ text # <<>>
              /\ Head(pattern) = "_" \/ Lower(Head(pattern)) = Lower(Head(text))
              /\ ILike(Tail(text), Tail(pattern))

\* text begins with part, whatever the case of the letters
RECURSIVE StartsWith(_, _)
StartsWith(text, part) ==
    \/ part = <<>>
    \/ /\ text # <<>>
       /\ Lower(Head(part)) = Lower(Head(text))
       /\ StartsWith(Tail(text), Tail(part))

\* f"%{city}%"
Pattern(city) == <<"%">> \o city \o <<"%">>

\* the calendar of the model: every departure is in January 2025, and a day
\* has two seconds
Date(fldate) == [year |-> 2025, month |-> 1, day |-> 1 + fldate.sec \div 2]

\* datetime.strptime(date, "%Y-%m-%d") raises ValueError for a text that has the
\* shape \d{4}-\d{2}-\d{2} and names no day of the calendar
StrptimeRaises(date) ==
    \/ date.year < 1
    \/ date.month \notin 1..12
    \/ date.day \notin 1..(CASE date.month \in {4, 6, 9, 11} -> 30
                             [] date.month = 2 ->
                                  IF date.year % 4 = 0 /\ (date.year % 100 # 0 \/ date.year % 400 = 0)
                                  THEN 29 ELSE 28
                             [] OTHER -> 31)

RECURSIVE Pad(_, _)
Pad(ds, width) == IF Len(ds) >= width THEN ds ELSE Pad(<<0>> \o ds, width)

\* the character codes of a run of digits
Codes(ds) == [i \in DOMAIN ds |-> 48 + ds[i]]

\* datetime.isoformat(): YYYY-MM-DDTHH:MM:SS, and .ffffff when microsecond # 0
isoformat(fldate) ==
    Codes(Pad(Digits(Date(fldate).year), 4)) \o <<45>>
        \o Codes(Pad(Digits(Date(fldate).month), 2)) \o <<45>>
        \o Codes(Pad(Digits(Date(fldate).day), 2)) \o <<84>>
        \o Codes(<<0, 0>>) \o <<58>> \o Codes(<<0, 0>>) \o <<58>>
        \o Codes(Pad(Digits(fldate.sec % 2), 2))
        \o (IF fldate.usec = 0 THEN <<>>
            ELSE <<46>> \o Codes(Pad(Digits(fldate.usec), 6)))

\* a < b for Python strings: by code point, a proper prefix first
RECURSIVE StrLess(_, _)
StrLess(a, b) ==
    IF b = <<>> THEN FALSE
    ELSE IF a = <<>> THEN TRUE
    ELSE IF Head(a) # Head(b) THEN Head(a) < Head(b)
    ELSE StrLess(Tail(a), Tail(b))

\* the orders in which a query can return the rows S
Orders(S) == {o \in [1..Cardinality(S) -> S] : \A x \in S : \E i \in DOMAIN o : o[i] = x}

\* max(0, sflight.seatsmax - len(sp.bookings))
Available(k) == Max(0, sflight[k].seatsmax - Cardinality(BookingsOf(k)))

SearchItem(k) ==
    [carrid |-> k[1], connid |-> k[2], fldate |-> isoformat(k[3]),
     cityfrom |-> Route(k).cityfrom, cityto |-> Route(k).cityto,
     available_seats |-> Available(k), total_seats |-> <<>>]

ListItem(k) == [SearchItem(k) EXCEPT !.total_seats = <<sflight[k].seatsmax>>]

\* list.sort(key=...): a stable insertion of every item after the items whose
\* key is not greater
RECURSIVE SortByFldate(_)
SortByFldate(items) ==
    IF items = <<>> THEN <<>>
    ELSE LET sorted == SortByFldate(SubSeq(items, 1, Len(items) - 1))
             x == items[Len(items)]
             n == Cardinality({i \in DOMAIN sorted : ~StrLess(x.fldate, sorted[i].fldate)})
         IN  SubSeq(sorted, 1, n) \o <<x>> \o SubSeq(sorted, n + 1, Len(sorted))

ReadOnly == /\ StoreUnchanged /\ RedisUnchanged /\ UNCHANGED <<run, now>>

search_flights(p, from_city, to_city, date) ==
    /\ proc[p].pc = "idle"
    /\ IF StrptimeRaises(date)
       THEN Finish(p, Asked(<<from_city, to_city, date>>,
                            Response("search", 400, "bad date format", 0)))
       ELSE LET candidates == {k \in spfli :
                                 /\ ILike(Route(k).cityfrom, Pattern(from_city))
                                 /\ ILike(Route(k).cityto, Pattern(to_city))}
                kept == {k \in candidates : /\ Date(k[3]) = date
                                            /\ k \in DOMAIN sflight
                                            /\ Available(k) > 0}
            IN  \E order \in Orders(kept) :
                   Finish(p, Asked(<<from_city, to_city, date>>,
                                   ListResponse("search",
                                      [i \in DOMAIN order |-> SearchItem(order[i])])))
    /\ ReadOnly

\* a listing that returns the rows in the order of the query
get_all_flights_Unsorted(p) ==
    /\ proc[p].pc = "idle"
    /\ \E order \in Orders({k \in spfli : k \in DOMAIN sflight}) :
          Finish(p, ListResponse("flights", [i \in DOMAIN order |-> ListItem(order[i])]))
    /\ ReadOnly

get_all_flights(p) ==
    /\ proc[p].pc = "idle"
    /\ \E order \in Orders({k \in spfli : k \in DOMAIN sflight}) :
          Finish(p, ListResponse("flights",
                    SortByFldate([i \in DOMAIN order |-> ListItem(order[i])])))
    /\ ReadOnly

Cities == {<<"m", "o", "s">>, <<"O", "N">>, <<"_">>, <<"%">>}
QueryDates == {[year |-> 2025, month |-> 1, day |-> 1],
               [year |-> 2025, month |-> 1, day |-> 2],
               [year |-> 2025, month |-> 13, day |-> 1]}

Search(p) == \E f \in Cities, t \in Cities, d \in QueryDates : search_flights(p, f, t, d)

NextSearch ==
    \/ CreateBooking("w1", {TokenOf("admin")}, {K1})
    \/ DeleteBooking("w1", {TokenOf("admin")})
    \/ Search("w1")

SpecSearch == Init /\ [][NextSearch]_vars

(* C17: a flight search with a date that parses returns exactly one item   *)
(* for every schedule whose origin and destination city contain from_city  *)
(* and to_city, case-insensitively, whose departure is on the date, whose   *)
(* flight exists and for which max(0, seatsmax - bookings) is positive;     *)
(* available_seats is that number, computed from the store.                 *)
Contains(text, part) == \E i \in 1..(Len(text) + 1) : StartsWith(SubSeq(text, i, Len(text)), part)

Matching(f, t, d) ==
    {k \in spfli : /\ Contains(Route(k).cityfrom, f)
                   /\ Contains(Route(k).cityto, t)
                   /\ Date(k[3]) = d
                   /\ k \in DOMAIN sflight
                   /\ Max(0, sflight[k].seatsmax - Cardinality(BookingsOf(k))) > 0}

ItemKey(item) == <<item.carrid, item.connid, item.fldate>>

Searched(p) == proc[p].pc = "idle" /\ resp[p].op = "search" /\ resp[p].status = 200

\* the response of worker p is the one C17 describes for its query
AsSpecified(p) ==
    LET f == resp[p].request[1][1]
        t == resp[p].request[1][2]
        d == resp[p].request[1][3]
        items == resp[p].items
    IN  /\ Len(items) = Cardinality(Matching(f, t, d))
        /\ \A k \in Matching(f, t, d) :
              \E i \in DOMAIN items :
                 /\ ItemKey(items[i]) = <<k[1], k[2], isoformat(k[3])>>
                 /\ items[i].available_seats
                       = sflight[k].seatsmax - Cardinality(BookingsOf(k))

C17_SearchResultSet == \A p \in Workers : Searched(p) => AsSpecified(p)

\* the part of C17 that holds: the same for city texts without % and _
Plain(city) == \A i \in DOMAIN city : city[i] \notin {"%", "_"}

C17_PlainSearch ==
    \A p \in Workers :
       Searched(p) /\ Plain(resp[p].request[1][1]) /\ Plain(resp[p].request[1][2])
          => AsSpecified(p)

C17_PlainWitness ==
    /\ Searched("w1") /\ Len(resp["w1"].items) = 1
    /\ resp["w1"].items[1].cityfrom = Moscow
    /\ cache[KeyOf(K1)] # <<>>
    /\ StrToInt(cache[KeyOf(K1)][1].value) # resp["w1"].items[1].available_seats

----------------------------------------------------------------------------
(* The listing of all flights, on a store with four schedules.             *)
InitListing ==
    /\ users = SeedUsers
    /\ user_id_seq = Cardinality(SeedUsers)
    /\ scust = SeedCustomers
    /\ \E n \in 1..MaxSeats :
          sflight = [k \in FlightKeys \cup {K4, K5} |->
                        [seatsmax |-> IF k = K1 THEN n ELSE 1]]
    /\ spfli = SchedKeys \cup {K4, K5}
    /\ sbook = {}
    /\ redis_up \in BOOLEAN
    /\ redis_available = redis_up
    /\ cache = [key \in CacheKeys |-> <<>>]
    /\ now = 0
    /\ proc = [p \in Workers |-> Idle]
    /\ resp = [p \in Workers |-> NoResp]
    /\ run = [k \in SchedKeys |-> NoRun]
    /\ client = NoClient
    /\ scarr = Carriers
    /\ sairport = Airports
    /\ seed = SeedOff
    /\ sessions = {}
    /\ written = [key \in CacheKeys |-> <<>>]

NextListing ==
    \/ CreateBooking("w1", {TokenOf("admin")}, {K1})
    \/ DeleteBooking("w1", {TokenOf("admin")})
    \/ get_all_flights("w1")

SpecListing == InitListing /\ [][NextListing]_vars

(* C18: the listing of all flights holds one item for every schedule that  *)
(* has a flight, a fully booked one included with available_seats 0, and   *)
(* none for another schedule; the items are in non-decreasing order of the *)
(* departure timestamp, whatever the order the rows were read in.          *)
Listed(p) == proc[p].pc = "idle" /\ resp[p].op = "flights"

\* the schedule an item is of
ScheduleOf(item) == CHOOSE k \in spfli : ItemKey(item) = <<k[1], k[2], isoformat(k[3])>>

NotAfter(a, b) == a.sec < b.sec \/ (a.sec = b.sec /\ a.usec <= b.usec)

C18_ListingComplete ==
    \A p \in Workers :
       Listed(p) =>
          LET items == resp[p].items
          IN  /\ resp[p].status = 200
              /\ Len(items) = Cardinality({k \in spfli : k \in DOMAIN sflight})
              /\ \A k \in spfli :
                    k \in DOMAIN sflight =>
                       \E i \in DOMAIN items :
                          /\ ItemKey(items[i]) = <<k[1], k[2], isoformat(k[3])>>
                          /\ items[i].available_seats
                                = Max(0, sflight[k].seatsmax - Cardinality(BookingsOf(k)))
                          /\ items[i].total_seats = <<sflight[k].seatsmax>>
              /\ \A i \in DOMAIN items :
                    \E k \in spfli : ItemKey(items[i]) = <<k[1], k[2], isoformat(k[3])>>
              /\ \A i, j \in DOMAIN items :
                    i < j => NotAfter(ScheduleOf(items[i])[3], ScheduleOf(items[j])[3])

C18_Witness ==
    /\ Listed("w1")
    /\ Len(resp["w1"].items) = 4
    /\ \E i \in DOMAIN resp["w1"].items :
          /\ resp["w1"].items[i].available_seats = 0
          /\ ScheduleOf(resp["w1"].items[i]) = K1
    /\ ScheduleOf(resp["w1"].items[4]) = K5

----------------------------------------------------------------------------
(* The public reads of the bookings router.                                *)
\* book.schedule, spfli.flight and sflight.carrier of a booking row
BookingItem(b) ==
    [bookid |-> b.bookid, carrid |-> b.sched[1],
     cityfrom |-> Route(b.sched).cityfrom, cityto |-> Route(b.sched).cityto]

get_all_bookings(p) ==
    /\ proc[p].pc = "idle"
    /\ \E order \in Orders(sbook) :
          Finish(p, ListResponse("bookings", [i \in DOMAIN order |-> BookingItem(order[i])]))
    /\ ReadOnly

\* filter_by(bookid=bookid).first(): a row with that number, or 404
get_booking_by_id(p, bookid) ==
    /\ proc[p].pc = "idle"
    /\ LET rows == {b \in sbook : b.bookid = bookid}
       IN  IF rows = {}
           THEN Finish(p, Response("booking", 404, "booking not found", bookid))
           ELSE \E book \in rows :
                   Finish(p, [ListResponse("booking", <<BookingItem(book)>>)
                                 EXCEPT !.booking_id = bookid])
    /\ ReadOnly

(* Every operation of the HTTP interface, one worker, a cache service that *)
(* can go away.                                                            *)
ApiTokens == {TokenOf("admin"), TokenOf("user1"), Malformed}
ApiPayloads == {[username |-> "bob", email |-> "bob@example.com", password |-> "pw"],
                [username |-> "carol", email |-> "alice@example.com", password |-> "pw"]}

NextApi ==
    \/ Login("w1", "admin", "123")
    \/ Login("w1", "nobody", "123")
    \/ Register("w1", ApiPayloads)
    \/ \E d \in {q \in QueryDates : q.day = 1} :
          search_flights("w1", <<"m", "o", "s">>, <<"%">>, d)
    \/ get_all_flights("w1")
    \/ get_all_bookings("w1")
    \/ \E bookid \in 1..MaxBookId : get_booking_by_id("w1", bookid)
    \/ CreateBooking("w1", ApiTokens, {K1})
    \/ DeleteBooking("w1", ApiTokens)
    \/ RedisDown

SpecApi == Init /\ [][NextApi]_vars

(* C19: a successful delete-booking removes exactly one row of the bookings *)
(* table and leaves every other booking and every other table as it was;    *)
(* no operation of the HTTP interface removes or changes a row of the       *)
(* users, customers, schedules, flights, carriers or airports, and only a   *)
(* successful delete-booking removes a booking.                             *)
RowsKept ==
    /\ users \subseteq users'
    /\ scust \subseteq scust'
    /\ spfli \subseteq spfli'
    /\ DOMAIN sflight \subseteq DOMAIN sflight'
    /\ \A k \in DOMAIN sflight : sflight'[k] = sflight[k]
    /\ scarr \subseteq scarr'
    /\ sairport \subseteq sairport'

Deleted(p) == Ends(p) /\ resp'[p].op = "delete" /\ resp'[p].status = 200

C16_NoSessionLeak ==
    /\ \A p \in Workers : proc[p].pc = "idle" => p \notin sessions
    /\ (\A p \in Workers : proc[p].pc = "idle") => sessions = {}

\* a request has ended with an unhandled exception, and no session is open
C16_Witness ==
    /\ proc["w1"].pc = "idle" /\ resp["w1"].status = 500
    /\ sessions = {}

(* C20: whenever no register call and no seeding run is in progress, every *)
(* user has exactly one customer, with client '100', the id of the user    *)
(* and the username as its name.                                           *)
Registering(p) == proc[p].pc \in {"rg_email", "rg_user", "rg_cust"}

CustomersOf(u) == {c \in scust : c.id = u.id}

C20_UserHasCustomer ==
    seed.pc = "off" /\ (\A p \in Workers : ~Registering(p)) =>
       \A u \in users :
          CustomersOf(u) = {[mandt |-> "100", id |-> u.id, name |-> u.username]}

----------------------------------------------------------------------------
(* Two workers: a delete-booking request of admin on one worker, while the *)
(* other handles create-booking and delete-booking requests of admin and   *)
(* of user1.                                                               *)
NextDeleteRace ==
    \/ DeleteBooking("w1", {TokenOf("admin")})
    \/ CreateBooking("w2", {TokenOf("admin"), TokenOf("user1")}, {K1})
    \/ DeleteBooking("w2", {TokenOf("admin")})

SpecDeleteRace == Init /\ [][NextDeleteRace]_vars

(* C21: every row that delete-booking removes is owned by the caller: it   *)
(* is the row the ownership check was made on, with custom_id equal to the *)
(* id of the user of the request's token, and a call removes at most one   *)
(* row.                                                                    *)
CheckedRow(p) ==
    [mandt |-> MANDT, sched |-> proc[p].sched, bookid |-> proc[p].bookid,
     custom_mandt |-> MANDT, custom_id |-> proc[p].user]

C21_DeletesOwnRow ==
    [][\A p \in Workers :
          proc[p].pc = "db_commit" /\ proc'[p].pc = "idle" =>
             /\ Cardinality(sbook \ sbook') <= 1
             /\ \A b \in sbook \ sbook' : b = CheckedRow(p)]_vars

\* the part of C21 that holds: the same when requests are handled one at a time
C21_WitnessSequential ==
    /\ resp["w1"].op = "delete" /\ resp["w1"].status = 200 /\ proc["w1"].pc = "idle"
    /\ \E b \in sbook : b.bookid = resp["w1"].booking_id /\ b.sched # K1

(* C22: a create-booking call that does not end with 201 leaves the stored *)
(* bookings as they were before the call, whatever it ends with (401, 404, *)
(* 400 or an unhandled error of the database or of the cache client); and  *)
(* a booking is stored only by a call that then reports it with a 201      *)
(* carrying its number.                                                    *)
EndsCreate(p) == Ends(p) /\ resp'[p].op = "create"

C22_FailedCreateStoresNothing ==
    [][\A p \in Workers :
          /\ EndsCreate(p) /\ resp'[p].status # 201 =>
                /\ sbook' = sbook
                /\ NewBooking(p) \notin sbook
          /\ EndsCreate(p) /\ resp'[p].status = 201 =>
                /\ NewBooking(p) \in sbook'
                /\ resp'[p].booking_id = proc[p].bookid
          /\ proc[p].pc = "cb_commit" /\ sbook' # sbook =>
                /\ sbook' = sbook \cup {NewBooking(p)}
                /\ ~Ends(p)]_vars

\* the part of C22 that holds: a failed call with a reachable cache stores nothing
C22_WitnessStable ==
    /\ proc["w1"].pc = "idle" /\ resp["w1"].op = "create" /\ resp["w1"].status = 400
    /\ sbook # {}

(* C23: with requests handled one at a time, whenever a schedule has a     *)
(* cache entry between two requests, its value v satisfies                 *)
(* 0 <= v <= max(0, seatsmax - number of stored bookings): the cache never *)
(* overstates the free seats.                                              *)
Quiet == \A p \in Workers : proc[p].pc = "idle"

C23_CacheNeverOverstates ==
    Quiet =>
       \A k \in SchedKeys :
          cache[KeyOf(k)] # <<>> =>
             /\ 0 <= CachedCount(k)
             /\ CachedCount(k) <= Max(0, sflight[k].seatsmax - Cardinality(BookingsOf(k)))

\* the part of C23 that holds: after a deletion the entry understates the free seats
C23_WitnessStable ==
    /\ Quiet /\ resp["w1"].op = "delete" /\ resp["w1"].status = 200
    /\ cache[KeyOf(K1)] # <<>>
    /\ CachedCount(K1) < sflight[K1].seatsmax - Cardinality(BookingsOf(K1))

(* C24: with requests handled one at a time, the number a new booking of a *)
(* schedule receives is one more than the highest remaining number (1 when *)
(* none remains). So after the deletion of the highest number k the next   *)
(* booking gets a number <= k, and k can be issued again; after the        *)
(* deletion of a number that is not the highest, that number is not issued *)
(* while a higher one is stored.                                           *)
\* n is the number a new booking receives when the numbers in rest remain:
\* max(rest, default 0) + 1
Issuable(rest, n) ==
    /\ \A m \in rest : m < n
    /\ n = 1 \/ n - 1 \in rest

RemainingNumbers(b) == {x.bookid : x \in {y \in sbook' : y.sched = b.sched}}

C24_NumberReuse ==
    [][\A p \in Workers :
          /\ proc[p].pc \in {"cb_load", "cb_bookid"} /\ proc'[p].pc # proc[p].pc
                => Issuable(BookIds(proc[p].sched), proc'[p].bookid)
          /\ proc[p].pc = "cb_commit" /\ sbook' # sbook
                => /\ Issuable(BookIds(proc[p].sched), proc[p].bookid)
                   /\ sbook' \ sbook = {NewBooking(p)}
          /\ proc[p].pc = "db_commit" /\ sbook' # sbook
                => \A b \in sbook \ sbook' :
                      IF \A m \in RemainingNumbers(b) : m < b.bookid
                      THEN \A n \in 1..MaxBookId + 1 :
                              Issuable(RemainingNumbers(b), n) => n <= b.bookid
                      ELSE ~Issuable(RemainingNumbers(b), b.bookid)]_vars

\* number 1 of a schedule of two seats has just been issued while the cached
\* count was 1 and the schedule held no booking: the booking that had number 1
\* was deleted before
C24_Witness ==
    /\ proc["w1"].pc = "idle"
    /\ resp["w1"].op = "create" /\ resp["w1"].status = 201 /\ resp["w1"].booking_id = 1
    /\ sflight[K1].seatsmax = 2
    /\ BookIds(K1) = {1}
    /\ cache[KeyOf(K1)] # <<>> /\ CachedCount(K1) = 0

====
